---- MODULE Spec2Model ----
(***************************************************************************)
(* A model of the shell emulator (src/prac1.py) and of its in-memory       *)
(* virtual file system (src/vfs.py).                                       *)
(*                                                                         *)
(* Strings that the code takes apart (paths, names, manifest cells,        *)
(* printed text) are sequences of one-character strings, so that           *)
(* normalisation, splitting and joining are computed as the code computes  *)
(* them.  Command verbs, which the code only compares for equality, are    *)
(* TLA+ strings.  The object graph of VEntry nodes is a heap: a sequence   *)
(* of node records addressed by their index, 0 standing for None.          *)
(***************************************************************************)
EXTENDS Integers, Sequences, FiniteSets, TLC

VARIABLES
    manifest,   \* the CSV file given by vfs_path: [exists, rows]
    vfs,        \* ShellEmulator.vfs: "None" or "VFS"
    nodes,      \* the heap of VEntry objects of the engine (<<>> without engine)
    cwd,        \* VirtualFileSystem.cwd
    running,    \* ShellEmulator.running
    pc,         \* position in main(): "init", "script", "main", "repl", "done"
    last,       \* the line (or direct engine call) handled by the last step
    out,        \* what the last step printed (or the engine call returned)
    need,       \* depth of the directory entered by the last cd not spelled ".."
    ups         \* successful "cd .." dispatched since then (counted up to need)

vars == <<manifest, vfs, nodes, cwd, running, pc, last, out, need, ups>>

----------------------------------------------------------------------------
(* Bounds of the model.                                                    *)

\* longest sequence of path segments in an enumerated command argument
MaxSegs == 2
\* most rows in an enumerated manifest
MaxRows == 2
\* deepest max_depth handed to tree() in a direct engine call
MaxTreeDepth == 2

----------------------------------------------------------------------------
(* Characters and strings.                                                 *)

\* Code points of the characters the model uses (Python orders str by them).
CharOrd(c) ==
    CASE c = " " -> 32 [] c = "#" -> 35 [] c = "-" -> 45 [] c = "." -> 46
      [] c = "/" -> 47 [] c = "A" -> 65 [] c = "C" -> 67 [] c = "D" -> 68
      [] c = "E" -> 69 [] c = "F" -> 70 [] c = "H" -> 72 [] c = "I" -> 73
      [] c = "L" -> 76 [] c = "N" -> 78 [] c = "O" -> 79 [] c = "P" -> 80
      [] c = "R" -> 82 [] c = "T" -> 84 [] c = "Y" -> 89 [] c = "\\" -> 92
      [] c = "a" -> 97 [] c = "b" -> 98 [] c = "c" -> 99 [] c = "d" -> 100
      [] c = "e" -> 101 [] c = "f" -> 102 [] c = "h" -> 104 [] c = "i" -> 105
      [] c = "l" -> 108 [] c = "n" -> 110 [] c = "o" -> 111 [] c = "p" -> 112
      [] c = "r" -> 114 [] c = "t" -> 116 [] c = "x" -> 120 [] c = "y" -> 121

\* str.lower() on one character
LowerChar(c) ==
    CASE c = "A" -> "a" [] c = "C" -> "c" [] c = "D" -> "d" [] c = "E" -> "e"
      [] c = "F" -> "f" [] c = "H" -> "h" [] c = "I" -> "i" [] c = "L" -> "l"
      [] c = "N" -> "n" [] c = "O" -> "o" [] c = "P" -> "p" [] c = "R" -> "r"
      [] c = "T" -> "t" [] c = "Y" -> "y"
      [] OTHER -> c

Lower(s) == [i \in 1..Len(s) |-> LowerChar(s[i])]

\* Python's < on str: lexicographic by code point, a proper prefix first
RECURSIVE StrLess(_, _)
StrLess(s, t) ==
    IF t = <<>> THEN FALSE
    ELSE IF s = <<>> THEN TRUE
    ELSE IF s[1] # t[1] THEN CharOrd(s[1]) < CharOrd(t[1])
    ELSE StrLess(Tail(s), Tail(t))

\* str.strip(): leading and trailing blanks removed
RECURSIVE LStrip(_)
LStrip(s) == IF s # <<>> /\ s[1] = " " THEN LStrip(Tail(s)) ELSE s

RECURSIVE RStrip(_)
RStrip(s) ==
    IF s # <<>> /\ s[Len(s)] = " " THEN RStrip(SubSeq(s, 1, Len(s) - 1)) ELSE s

Strip(s) == RStrip(LStrip(s))

\* str.startswith(prefix)
StartsWith(s, prefix) ==
    Len(s) >= Len(prefix) /\ SubSeq(s, 1, Len(prefix)) = prefix

\* str.endswith(suffix)
EndsWith(s, suffix) ==
    Len(s) >= Len(suffix) /\ SubSeq(s, Len(s) - Len(suffix) + 1, Len(s)) = suffix

\* str.replace("\\", "/")
ReplaceBackslash(s) == [i \in 1..Len(s) |-> IF s[i] = "\\" THEN "/" ELSE s[i]]

\* str.split("/"): the pieces between separators, empty pieces kept
RECURSIVE SplitFrom(_, _, _)
SplitFrom(s, cur, acc) ==
    IF s = <<>> THEN Append(acc, cur)
    ELSE IF s[1] = "/" THEN SplitFrom(Tail(s), <<>>, Append(acc, cur))
    ELSE SplitFrom(Tail(s), Append(cur, s[1]), acc)

Split(s) == SplitFrom(s, <<>>, <<>>)

\* sep.join(parts)
RECURSIVE Join(_, _)
Join(sep, parts) ==
    IF parts = <<>> THEN <<>>
    ELSE IF Len(parts) = 1 THEN parts[1]
    ELSE parts[1] \o sep \o Join(sep, Tail(parts))

\* [p for p in parts if p]
RECURSIVE NonEmpty(_)
NonEmpty(parts) ==
    IF parts = <<>> THEN <<>>
    ELSE IF parts[1] = <<>> THEN NonEmpty(Tail(parts))
    ELSE <<parts[1]>> \o NonEmpty(Tail(parts))

\* str.rfind("/") + 1: the length of the part up to and including the last "/"
RECURSIVE LastSlash(_)
LastSlash(s) ==
    IF s = <<>> THEN 0
    ELSE IF s[Len(s)] = "/" THEN Len(s)
    ELSE LastSlash(SubSeq(s, 1, Len(s) - 1))

\* str.rstrip("/")
RECURSIVE RStripSlash(_)
RStripSlash(s) ==
    IF s # <<>> /\ s[Len(s)] = "/" THEN RStripSlash(SubSeq(s, 1, Len(s) - 1)) ELSE s

AllSlashes(s) == \A i \in 1..Len(s) : s[i] = "/"

----------------------------------------------------------------------------
(* posixpath, as called by the engine.                                     *)

Dot == <<".">>
DotDot == <<".", ".">>
Slash == <<"/">>

\* posixpath.normpath: the loop over the components
RECURSIVE NormComps(_, _, _)
NormComps(comps, initial_slashes, new_comps) ==
    IF comps = <<>> THEN new_comps
    ELSE LET comp == comps[1]
             rest == Tail(comps)
         IN  IF comp = <<>> \/ comp = Dot
             THEN NormComps(rest, initial_slashes, new_comps)
             ELSE IF \/ comp # DotDot
                     \/ (initial_slashes = 0 /\ new_comps = <<>>)
                     \/ (new_comps # <<>> /\ new_comps[Len(new_comps)] = DotDot)
             THEN NormComps(rest, initial_slashes, Append(new_comps, comp))
             ELSE IF new_comps # <<>>
             THEN NormComps(rest, initial_slashes,
                            SubSeq(new_comps, 1, Len(new_comps) - 1))
             ELSE NormComps(rest, initial_slashes, new_comps)

\* posixpath.normpath: exactly two leading slashes are kept, three or more are one
normpath(path) ==
    IF path = <<>> THEN Dot
    ELSE LET initial_slashes ==
                 IF ~StartsWith(path, Slash) THEN 0
                 ELSE IF StartsWith(path, <<"/", "/">>)
                         /\ ~StartsWith(path, <<"/", "/", "/">>)
                 THEN 2 ELSE 1
             comps == NormComps(Split(path), initial_slashes, <<>>)
             joined == Join(Slash, comps)
             res == [i \in 1..initial_slashes |-> "/"] \o joined
         IN  IF res = <<>> THEN Dot ELSE res

\* posixpath.join(a, p) for two arguments
posixjoin(a, p) ==
    IF StartsWith(p, Slash) THEN p
    ELSE IF a = <<>> \/ EndsWith(a, Slash) THEN a \o p
    ELSE a \o Slash \o p

\* posixpath.dirname
dirname(p) ==
    LET head == SubSeq(p, 1, LastSlash(p))
    IN  IF head # <<>> /\ ~AllSlashes(head) THEN RStripSlash(head) ELSE head

\* posixpath.basename
basename(p) == SubSeq(p, LastSlash(p) + 1, Len(p))

\* _normalize_posix, lines 86-90: "." becomes "/", a leading "/" is ensured
Rooted(norm) ==
    IF norm = Dot THEN Slash
    ELSE IF ~StartsWith(norm, Slash) THEN Slash \o norm
    ELSE norm

\* VirtualFileSystem._normalize_posix, with self.cwd passed as c
normalize_posix(c, p) ==
    IF p = <<>> THEN c
    ELSE Rooted(normpath(IF StartsWith(ReplaceBackslash(p), Slash)
                         THEN ReplaceBackslash(p)
                         ELSE posixjoin(c, ReplaceBackslash(p))))

----------------------------------------------------------------------------
(* The node store: VEntry, VFile, VDirectory.                              *)

None == 0
RootId == 1
EmptyMap == [k \in {} |-> 0]

\* VDirectory(name): no parent yet, no children
VDirectory(name) ==
    [name |-> name, parent |-> None, isDir |-> TRUE,
     children |-> EmptyMap, content |-> <<>>]

\* VFile(name, content): no parent yet
VFile(name, content) ==
    [name |-> name, parent |-> None, isDir |-> FALSE,
     children |-> EmptyMap, content |-> content]

\* VDirectory.get_child: the child's index, None when there is none
get_child(ns, d, name) ==
    IF name \in DOMAIN ns[d].children THEN ns[d].children[name] ELSE None

\* add_child that forgets the back-reference (a faulty variant)
add_child_noparent(ns, d, e) ==
    [ns EXCEPT ![d].children = [k \in DOMAIN ns[d].children \cup {ns[e].name} |->
                                   IF k = ns[e].name THEN e ELSE ns[d].children[k]]]

\* add_child that leaves an entry already stored under the name (a faulty variant)
add_child_keep(ns, d, e) ==
    IF ns[e].name \in DOMAIN ns[d].children THEN ns
    ELSE [ns EXCEPT ![e].parent = d,
                    ![d].children = [k \in DOMAIN ns[d].children \cup {ns[e].name} |->
                                        IF k = ns[e].name THEN e ELSE ns[d].children[k]]]

\* VDirectory.add_child: entry.parent = self; self.children[entry.name] = entry
add_child(ns, d, e) ==
    [ns EXCEPT ![e].parent = d,
               ![d].children = [k \in DOMAIN ns[d].children \cup {ns[e].name} |->
                                   IF k = ns[e].name THEN e ELSE ns[d].children[k]]]

\* VEntry.path: the names from the node up to (not including) the parentless node
RECURSIVE PathParts(_, _)
PathParts(ns, n) ==
    IF n = None \/ ns[n].parent = None THEN <<>>
    ELSE Append(PathParts(ns, ns[n].parent), ns[n].name)

path(ns, n) ==
    LET parts == PathParts(ns, n)
    IN  IF parts = <<>> THEN Slash ELSE Slash \o Join(Slash, parts)

\* _ensure_dir: the loop over the segments
RECURSIVE EnsureLoop(_, _, _)
EnsureLoop(ns, node, parts) ==
    IF parts = <<>> THEN [exc |-> FALSE, msg |-> "", nodes |-> ns, node |-> node]
    ELSE LET seg == parts[1]
             child == get_child(ns, node, seg)
         IN  IF child = None
             THEN LET newdir == Len(ns) + 1
                      ns1 == add_child(Append(ns, VDirectory(seg)), node, newdir)
                  IN  EnsureLoop(ns1, newdir, Tail(parts))
             ELSE IF ns[child].isDir
             THEN EnsureLoop(ns, child, Tail(parts))
             ELSE [exc |-> TRUE, msg |-> "Path conflict", nodes |-> ns, node |-> None]

\* _ensure_dir, lines 162-178, on the normalized path
EnsureFrom(ns, p) ==
    IF p = Slash
    THEN [exc |-> FALSE, msg |-> "", nodes |-> ns, node |-> RootId]
    ELSE EnsureLoop(ns, RootId, NonEmpty(Split(p)))

\* VirtualFileSystem._ensure_dir
ensure_dir(ns, c, abs_path) == EnsureFrom(ns, normalize_posix(c, abs_path))

\* _get_node: the loop over the segments
RECURSIVE GetLoop(_, _, _)
GetLoop(ns, node, parts) ==
    IF parts = <<>> THEN node
    ELSE IF ~ns[node].isDir THEN None
    ELSE LET child == get_child(ns, node, parts[1])
         IN  IF child = None THEN None ELSE GetLoop(ns, child, Tail(parts))

\* _get_node, lines 182-192, on the normalized path
GetFrom(ns, p) ==
    IF p = Slash THEN RootId ELSE GetLoop(ns, RootId, NonEmpty(Split(p)))

\* VirtualFileSystem._get_node
get_node(ns, c, abs_path) == GetFrom(ns, normalize_posix(c, abs_path))

----------------------------------------------------------------------------
(* The manifest loader.  A manifest is the list of rows csv.reader yields, *)
(* each row a list of cells.                                               *)

PathTok == <<"p", "a", "t", "h">>
TypeTok == <<"t", "y", "p", "e">>
ContentTok == <<"c", "o", "n", "t", "e", "n", "t">>
DirTok == <<"d", "i", "r">>
FileTok == <<"f", "i", "l", "e">>

Cells(row) == {row[i] : i \in 1..Len(row)}

\* first = [c.strip().lower() for c in rows[0]]
HeaderOf(rows) == [i \in 1..Len(rows[1]) |-> Lower(Strip(rows[1][i]))]

\* "path" in first and "type" in first
HeaderPresent(rows) ==
    rows # <<>> /\ PathTok \in Cells(HeaderOf(rows)) /\ TypeTok \in Cells(HeaderOf(rows))

DataRows(rows) == IF HeaderPresent(rows) THEN Tail(rows) ELSE rows

\* d.get(key, "") of d = {header[i]: row[i].strip() if i < len(row) else ""}
DictGet(header, row, key) ==
    LET I == {i \in 1..Len(header) : header[i] = key}
    IN  IF I = {} THEN <<>>
        ELSE LET m == CHOOSE i \in I : \A j \in I : j <= i
             IN  IF m <= Len(row) THEN Strip(row[m]) ELSE <<>>

\* the three fields of a data row: lines 123-131
Fields(header_present, header, row) ==
    IF header_present
    THEN [path |-> DictGet(header, row, PathTok),
          typ |-> Lower(DictGet(header, row, TypeTok)),
          content |-> DictGet(header, row, ContentTok)]
    ELSE [path |-> IF Len(row) > 0 THEN Strip(row[1]) ELSE <<>>,
          typ |-> IF Len(row) > 1 THEN Lower(Strip(row[2])) ELSE <<>>,
          content |-> IF Len(row) > 2 THEN Strip(row[3]) ELSE <<>>]

\* not row or all((not cell.strip()) for cell in row)
BlankRow(row) == \A i \in 1..Len(row) : Strip(row[i]) = <<>>

\* the path a row declares, as the loader takes it: lines 135-137
RowPath(raw) ==
    LET p == ReplaceBackslash(raw)
    IN  IF StartsWith(p, Slash) THEN p ELSE Slash \o p

\* lines 146-149 and 156-157: the File is attached to parent_node; only the
\* "file" branch checks that parent_node is a VDirectory
AttachTo(ns, parent_node, name, content, checked) ==
    IF checked /\ (parent_node = None \/ ~ns[parent_node].isDir)
    THEN [exc |-> TRUE, msg |-> "Parent is not a directory", nodes |-> ns]
    ELSE IF parent_node = None
    THEN [exc |-> TRUE, msg |-> "AttributeError", nodes |-> ns]
    ELSE [exc |-> FALSE, msg |-> "",
          nodes |-> add_child(Append(ns, VFile(name, content)),
                              parent_node, Len(ns) + 1)]

\* lines 143-145 and 153-155, after _ensure_dir(parent_dir) returned or raised e
AttachUnder(e, c, p, content, checked) ==
    IF e.exc THEN [exc |-> TRUE, msg |-> e.msg, nodes |-> e.nodes]
    ELSE AttachTo(e.nodes, get_node(e.nodes, c, dirname(p)), basename(p),
                  content, checked)

\* attach a File leaf under the parent of p: lines 142-149 and 152-157
AttachFile(ns, c, p, content, checked) ==
    AttachUnder(ensure_dir(ns, c, dirname(p)), c, p, content, checked)

\* what a "dir" row yields: the nodes after _ensure_dir, or its exception
DirRow(e) == [exc |-> e.exc, msg |-> e.msg, nodes |-> e.nodes]

\* the loader rejecting a type that is neither dir nor file (a faulty variant)
LoadFields_strict(ns, c, f) ==
    IF f.path = <<>> THEN [exc |-> FALSE, msg |-> "", nodes |-> ns]
    ELSE IF f.typ = DirTok THEN DirRow(ensure_dir(ns, c, RowPath(f.path)))
    ELSE IF f.typ = FileTok THEN AttachFile(ns, c, RowPath(f.path), f.content, TRUE)
    ELSE [exc |-> TRUE, msg |-> "Unknown type", nodes |-> ns]

\* lines 133-157 for the fields f of a row
LoadFields(ns, c, f) ==
    IF f.path = <<>> THEN [exc |-> FALSE, msg |-> "", nodes |-> ns]
    ELSE IF f.typ = DirTok THEN DirRow(ensure_dir(ns, c, RowPath(f.path)))
    ELSE IF f.typ = FileTok THEN AttachFile(ns, c, RowPath(f.path), f.content, TRUE)
    ELSE AttachFile(ns, c, RowPath(f.path), f.content, FALSE)

\* one turn of the loop over data_rows: lines 121-157
LoadRow(ns, c, header_present, header, row) ==
    IF BlankRow(row) THEN [exc |-> FALSE, msg |-> "", nodes |-> ns]
    ELSE LoadFields(ns, c, Fields(header_present, header, row))

RECURSIVE LoadRows(_, _, _, _, _)
\* the loop goes on with the next row unless the row raised
LoadNext(r, c, header_present, header, rows) ==
    IF r.exc THEN r ELSE LoadRows(r.nodes, c, header_present, header, rows)

\* for row in data_rows
LoadRows(ns, c, header_present, header, rows) ==
    IF rows = <<>> THEN [exc |-> FALSE, msg |-> "", nodes |-> ns]
    ELSE LoadNext(LoadRow(ns, c, header_present, header, rows[1]),
                  c, header_present, header, Tail(rows))

\* VirtualFileSystem.__init__ and _load_csv: root = VDirectory(""), cwd = "/",
\* then the rows in order; an exception leaves no instance
load_csv(m) ==
    IF ~m.exists
    THEN [exc |-> TRUE, msg |-> "CSV file not found", nodes |-> <<VDirectory(<<>>)>>]
    ELSE LoadRows(<<VDirectory(<<>>)>>, Slash, HeaderPresent(m.rows),
                  IF HeaderPresent(m.rows) THEN HeaderOf(m.rows) ELSE <<>>,
                  DataRows(m.rows))

----------------------------------------------------------------------------
(* The operation engine: ls, cd, tree.  Each returns [exc, msg, val]: val  *)
(* is the returned value, or the text the exception message ends with.     *)

\* the argument None of an Optional[str] parameter
NoneArg == <<"None">>

\* sorted() in descending order (a faulty variant)
RECURSIVE sorted_desc(_)
sorted_desc(S) ==
    IF S = {} THEN <<>>
    ELSE LET m == CHOOSE x \in S : \A y \in S \ {x} : StrLess(y, x)
         IN  <<m>> \o sorted_desc(S \ {m})

\* sorted(node.children.keys())
RECURSIVE sorted(_)
sorted(S) ==
    IF S = {} THEN <<>>
    ELSE LET m == CHOOSE x \in S : \A y \in S \ {x} : StrLess(x, y)
         IN  <<m>> \o sorted(S \ {m})

\* ls, lines 206-211, for the node the target resolved to
ls_node(ns, node, target) ==
    IF node = None
    THEN [exc |-> TRUE, msg |-> "No such file or directory", val |-> target]
    ELSE IF ns[node].isDir
    THEN [exc |-> FALSE, msg |-> "", val |-> sorted(DOMAIN ns[node].children)]
    ELSE [exc |-> FALSE, msg |-> "", val |-> <<ns[node].name>>]

\* VirtualFileSystem.ls
ls(ns, c, p) ==
    ls_node(ns, get_node(ns, c, IF p = NoneArg THEN c ELSE p),
            IF p = NoneArg THEN c ELSE p)

\* cd that moves before it checks (a faulty variant)
cd_unchecked(ns, c, abs_path, node) ==
    [exc |-> FALSE, msg |-> "", val |-> abs_path]

\* cd without the isinstance check (a faulty variant: a File can be entered)
cd_anynode(ns, c, abs_path, node) ==
    IF node = None
    THEN [exc |-> TRUE, msg |-> "No such directory", val |-> c]
    ELSE [exc |-> FALSE, msg |-> "", val |-> abs_path]

\* cd, lines 219-223, for the node abs_path resolved to
cd_node(ns, c, abs_path, node) ==
    IF node = None
    THEN [exc |-> TRUE, msg |-> "No such directory", val |-> c]
    ELSE IF ~ns[node].isDir
    THEN [exc |-> TRUE, msg |-> "Not a directory", val |-> c]
    ELSE [exc |-> FALSE, msg |-> "", val |-> abs_path]

\* VirtualFileSystem.cd: val is the cwd after the call
cd(ns, c, p) ==
    IF p = <<>> THEN [exc |-> FALSE, msg |-> "", val |-> Slash]
    ELSE cd_node(ns, c, normalize_posix(c, p),
                 get_node(ns, c, normalize_posix(c, p)))

\* tree._recurse: the lines of node n and below; max_depth is <<>> for None
RECURSIVE recurse(_, _, _, _, _)
RECURSIVE RecurseChildren(_, _, _, _, _, _)
\* _recurse pruning one level too late (a faulty variant)
recurse_late(ns, n, prefix, depth, max_depth) ==
    LET name == IF ns[n].parent # None THEN ns[n].name ELSE Slash
        line == prefix \o name
    IN  IF ~ns[n].isDir THEN <<line>>
        ELSE IF max_depth # <<>> /\ depth > max_depth[1] THEN <<line>>
        ELSE <<line>> \o RecurseChildren(ns, n, sorted(DOMAIN ns[n].children),
                                         prefix, depth, max_depth)

recurse(ns, n, prefix, depth, max_depth) ==
    LET name == IF ns[n].parent # None THEN ns[n].name ELSE Slash
        line == prefix \o name
    IN  IF ~ns[n].isDir THEN <<line>>
        ELSE IF max_depth # <<>> /\ depth >= max_depth[1] THEN <<line>>
        ELSE <<line>> \o RecurseChildren(ns, n, sorted(DOMAIN ns[n].children),
                                         prefix, depth, max_depth)

\* the loop over sorted(n.children.keys()) in _recurse
RecurseChildren(ns, n, names, prefix, depth, max_depth) ==
    IF names = <<>> THEN <<>>
    ELSE recurse(ns, ns[n].children[names[1]], prefix \o <<" ", " ">>,
                 depth + 1, max_depth)
         \o RecurseChildren(ns, n, Tail(names), prefix, depth, max_depth)

\* tree, lines 237-252, for the node start_path resolved to
tree_node(ns, node, start_path, max_depth) ==
    IF node = None
    THEN [exc |-> TRUE, msg |-> "No such path", val |-> start_path]
    ELSE [exc |-> FALSE, msg |-> "",
          val |-> Join(<<"\n">>, recurse(ns, node, <<>>, 0, max_depth))]

\* VirtualFileSystem.tree
tree(ns, c, p, max_depth) ==
    tree_node(ns, get_node(ns, c, IF p = NoneArg THEN c ELSE p),
              IF p = NoneArg THEN c ELSE p, max_depth)

\* read_file, lines 228-232, for the node abs_path resolved to, with
\* decode_base64 left False: the content, encoded
read_file_node(ns, node, p) ==
    IF node = None
    THEN [exc |-> TRUE, msg |-> "No such file", val |-> p]
    ELSE IF ns[node].isDir
    THEN [exc |-> TRUE, msg |-> "Path is not a file", val |-> p]
    ELSE [exc |-> FALSE, msg |-> "", val |-> ns[node].content]

\* VirtualFileSystem.read_file
read_file(ns, c, p) ==
    read_file_node(ns, get_node(ns, c, normalize_posix(c, p)), p)

----------------------------------------------------------------------------
(* The command dispatcher.  A handler's result is [cwd, running, out]; out *)
(* is what it printed: [kind, msg, text].                                  *)

Printed(kind, msg, text) == [kind |-> kind, msg |-> msg, text |-> text]

\* cmd_ls, lines 56-58: the names joined by two blanks, or "ls: " and the message
ls_print(r) ==
    IF r.exc THEN Printed("error", r.msg, r.val)
    ELSE Printed("result", "", Join(<<" ", " ">>, r.val))

\* ShellEmulator.cmd_ls
cmd_ls(v, ns, c, args) ==
    IF v = "VFS" THEN ls_print(ls(ns, c, IF args # <<>> THEN args[1] ELSE NoneArg))
    ELSE Printed("stub", "ls", <<>>)

\* cmd_cd, lines 66-68: nothing printed, or "cd: " and the message
cd_print(c, r, target) ==
    IF r.exc THEN [cwd |-> c, out |-> Printed("error", r.msg, target)]
    ELSE [cwd |-> r.val, out |-> Printed("silent", "", <<>>)]

\* ShellEmulator.cmd_cd: the engine's cwd afterwards and what was printed
cmd_cd(v, ns, c, args) ==
    IF v = "VFS"
    THEN cd_print(c, cd(ns, c, IF args # <<>> THEN args[1] ELSE Slash),
                  IF args # <<>> THEN args[1] ELSE Slash)
    ELSE [cwd |-> c, out |-> Printed("stub", "cd", <<>>)]

\* ShellEmulator.cmd_vfs_info
cmd_vfs_info(v) ==
    IF v # "VFS" THEN Printed("novfs", "No VFS loaded.", <<>>)
    ELSE Printed("info", "", <<>>)

\* cmd_tree, lines 101-103: the tree, or "tree: " and the message
tree_print(r) ==
    IF r.exc THEN Printed("error", r.msg, r.val)
    ELSE Printed("result", "", r.val)

\* ShellEmulator.cmd_tree
cmd_tree(v, ns, c, args) ==
    IF v # "VFS" THEN Printed("novfs", "No VFS loaded.", <<>>)
    ELSE tree_print(tree(ns, c, IF args # <<>> THEN args[1] ELSE NoneArg, <<>>))

ExitTok == <<"e", "x", "i", "t">>
LsTok == <<"l", "s">>
CdTok == <<"c", "d">>
TreeTok == <<"t", "r", "e", "e">>
InfoTok == <<"v", "f", "s", "-", "i", "n", "f", "o">>
UnameTok == <<"u", "n", "a", "m", "e">>
WhoamiTok == <<"w", "h", "o", "a", "m", "i">>

\* a handler that leaves cwd and running alone
Same(c, run, o) == [cwd |-> c, running |-> run, out |-> o]

\* the result of cmd_cd, running left alone
Moved(rc, run) == [cwd |-> rc.cwd, running |-> run, out |-> rc.out]

\* run_command that lets an unrecognized verb stop the session (a faulty variant)
run_command_strict(v, ns, c, run, cmd, args) ==
    IF cmd = LsTok THEN Same(c, run, cmd_ls(v, ns, c, args))
    ELSE IF cmd = CdTok THEN Moved(cmd_cd(v, ns, c, args), run)
    ELSE IF cmd = TreeTok THEN Same(c, run, cmd_tree(v, ns, c, args))
    ELSE Same(c, FALSE, Printed("unknown", "Unknown command", cmd))

\* run_command with "ls" bound to the handler of "cd" (a faulty variant)
run_command_lsmoves(v, ns, c, run, cmd, args) ==
    IF cmd = ExitTok THEN Same(c, FALSE, Printed("exit", "Exiting emulator.", <<>>))
    ELSE IF cmd \in {LsTok, CdTok} THEN Moved(cmd_cd(v, ns, c, args), run)
    ELSE IF cmd = InfoTok THEN Same(c, run, cmd_vfs_info(v))
    ELSE IF cmd = TreeTok THEN Same(c, run, cmd_tree(v, ns, c, args))
    ELSE IF cmd \in {UnameTok, WhoamiTok} THEN Same(c, run, Printed("env", "", cmd))
    ELSE Same(c, run, Printed("unknown", "Unknown command", cmd))

\* ShellEmulator.run_command (cmd_exit, cmd_uname and cmd_whoami inlined)
run_command(v, ns, c, run, cmd, args) ==
    IF cmd = ExitTok THEN Same(c, FALSE, Printed("exit", "Exiting emulator.", <<>>))
    ELSE IF cmd = LsTok THEN Same(c, run, cmd_ls(v, ns, c, args))
    ELSE IF cmd = CdTok THEN Moved(cmd_cd(v, ns, c, args), run)
    ELSE IF cmd = InfoTok THEN Same(c, run, cmd_vfs_info(v))
    ELSE IF cmd = TreeTok THEN Same(c, run, cmd_tree(v, ns, c, args))
    ELSE IF cmd \in {UnameTok, WhoamiTok} THEN Same(c, run, Printed("env", "", cmd))
    ELSE Same(c, run, Printed("unknown", "Unknown command", cmd))

\* str.split(): the words between runs of blanks
RECURSIVE WordsFrom(_, _, _)
WordsFrom(s, cur, acc) ==
    IF s = <<>> THEN IF cur = <<>> THEN acc ELSE Append(acc, cur)
    ELSE IF s[1] = " "
    THEN WordsFrom(Tail(s), <<>>, IF cur = <<>> THEN acc ELSE Append(acc, cur))
    ELSE WordsFrom(Tail(s), Append(cur, s[1]), acc)

\* ShellEmulator.parse_input: (None, []) is [cmd |-> <<>>, args |-> <<>>]
parse_input(line) ==
    LET tokens == WordsFrom(Strip(line), <<>>, <<>>)
    IN  IF tokens = <<>> THEN [cmd |-> <<>>, args |-> <<>>]
        ELSE [cmd |-> tokens[1], args |-> Tail(tokens)]

----------------------------------------------------------------------------
(* Inputs: manifests, command lines, arguments of direct engine calls.     *)

RECURSIVE SeqsUpTo(_, _)
SeqsUpTo(S, n) ==
    IF n = 0 THEN {<<>>}
    ELSE LET T == SeqsUpTo(S, n - 1)
         IN  T \cup {Append(q, x) : q \in T, x \in S}

\* a directory two levels deep, a file beside a directory, a file named "b"
ManifestTree ==
    [exists |-> TRUE,
     rows |-> <<<<<<"/", "b", "/", "a">>, <<"d", "i", "r">>, <<>>>>,
                <<<<"/", "a", "/", "b">>, <<"f", "i", "l", "e">>, <<"h", "e", "l", "l", "o">>>>,
                <<<<"/", "a", "/", "b", ".", "t", "x", "t">>, <<"f", "i", "l", "e">>, <<"h", "e", "l", "l", "o">>>>>>]

\* the manifest of the concrete scenario: /a (dir), /a/b.txt (file, hello)
ManifestScenario ==
    [exists |-> TRUE,
     rows |-> <<<<<<"/", "a">>, <<"d", "i", "r">>, <<>>>>,
                <<<<"/", "a", "/", "b", ".", "t", "x", "t">>, <<"f", "i", "l", "e">>, <<"h", "e", "l", "l", "o">>>>>>]

\* a header row, cells with blanks, upper case, a backslash, an unknown type
ManifestHeader ==
    [exists |-> TRUE,
     rows |-> <<<<<<" ", "P", "a", "t", "h">>, <<"T", "Y", "P", "E">>, <<"c", "o", "n", "t", "e", "n", "t">>>>,
                <<<<"a", "\\", "b">>, <<" ", "D", "I", "R">>, <<>>>>,
                <<>>,
                <<<<"b">>, <<"t", "x", "t">>, <<"h", "e", "l", "l", "o">>>>>>]

\* a directory below a file: the load fails
ManifestConflict ==
    [exists |-> TRUE,
     rows |-> <<<<<<"/", "a">>, <<"f", "i", "l", "e">>, <<>>>>,
                <<<<"/", "a", "/", "b">>, <<"d", "i", "r">>, <<>>>>>>]

\* no file at vfs_path
ManifestMissing == [exists |-> FALSE, rows |-> <<>>]

\* a row of one cell: its type is the empty string
ManifestShort ==
    [exists |-> TRUE,
     rows |-> <<<<<<"/", "a">>, <<"d", "i", "r">>>>,
                <<<<"/", "a", "/", "c">>>>>>]

SessionManifests ==
    {ManifestTree, ManifestScenario, ManifestHeader, ManifestConflict, ManifestMissing}

RowPaths == {<<"/", "a">>,
             <<"/", "a", "/", "b">>,
             <<"a">>,
             <<"/", "a", "/">>,
             <<"/", "b", "/", ".", ".">>,
             <<"/", "/", "b">>}
RowTypes == {DirTok, FileTok, <<"t", "x", "t">>}
Rows == {<<p, ty, <<>>>> : p \in RowPaths, ty \in RowTypes}

LoadManifests ==
    {[exists |-> TRUE, rows |-> rs] : rs \in SeqsUpTo(Rows, MaxRows)}
        \cup {ManifestHeader, ManifestMissing, ManifestShort}

Leads == {<<>>, <<"/">>, <<"/", "/">>}
SegNames == {DotDot, <<"a">>, <<"b">>}

\* paths spelled from the segments, plus a few spellings with ".", a backslash,
\* a trailing or a tripled slash, and names that are files or do not exist
PathArgs ==
    ({lead \o Join(Slash, q) : lead \in Leads, q \in SeqsUpTo(SegNames, MaxSegs)}
        \ {<<>>})
    \cup {<<".">>,
          <<"a", "\\", "b">>,
          <<"/", "a", "/", "b", ".", "t", "x", "t">>,
          <<"/", "/", "/", "a">>,
          <<"a", "/">>,
          <<"c">>}

Sp == <<" ">>

Lines ==
    {CdTok \o Sp \o p : p \in PathArgs}
    \cup {LsTok \o Sp \o p : p \in {<<"a">>, <<"/", "a", "/", "b", ".", "t", "x", "t">>, <<"c">>, <<".", ".">>, <<"/", "/", "b">>}}
    \cup {TreeTok \o Sp \o p : p \in {<<"a">>, <<"/", "a", "/", "b", ".", "t", "x", "t">>, <<"c">>, <<".", ".">>, <<"/", "/", "b">>}}
    \cup {CdTok, LsTok, TreeTok, ExitTok, InfoTok, UnameTok, WhoamiTok,
          <<>>, <<" ", " ">>, <<"e", "x", "i", "t", " ", "n", "o", "w">>,
          <<"#", " ", "l", "s">>,
          <<"f", "o", "o">>,
          <<"r", "m", " ", "a">>,
          <<"r", "m", " ", "-", "r", " ", "a">>,
          <<"r", "m", " ", "b">>,
          <<" ", "l", "s", " ", " ", "a", " ">>,
          <<"t", "r", "e", "e", " ", "a", " ", "b">>,
          <<"E", "x", "i", "t">>,
          <<"c", "d", " ", "a", " ", "b">>,
          <<"l", "s", " ", "a", " ", "b">>,
          <<"c", "h", "m", "o", "d", " ", "7", "5", "5", " ", "a">>,
          <<"c", "h", "m", "o", "d", " ", "7", "5", "5", " ", "/">>,
          <<"l", "s", " ", "-", "l", " ", "a">>}

----------------------------------------------------------------------------
(* The session: main(), ShellEmulator.__init__, run_script, repl.          *)

NoLine ==
    [src |-> "none", line |-> <<>>, echoed |-> FALSE, dispatched |-> FALSE,
     cmd |-> <<>>, args |-> <<>>]

NoOut == Printed("none", "", <<>>)

Init ==
    /\ manifest \in SessionManifests
    /\ vfs = "None"
    /\ nodes = <<>>
    /\ cwd = <<>>
    /\ running = TRUE
    /\ pc = "init"
    /\ last = NoLine
    /\ out = NoOut
    /\ need = -1
    /\ ups = 0

\* Observer for the cd / cd .. round trip: after a successful cd, the depth of
\* the directory entered when it is a child of the directory left, and the
\* number of successful "cd .." since.
Entered(ns, tgt, from) ==
    IF tgt # None /\ tgt # RootId /\ ns[tgt].parent = from
    THEN [need |-> Len(PathParts(ns, tgt)), ups |-> 0]
    ELSE [need |-> -1, ups |-> 0]

Track(ns, c, arg, newcwd) ==
    IF arg = DotDot
    THEN [need |-> need, ups |-> IF ups < need THEN ups + 1 ELSE ups]
    ELSE Entered(ns, get_node(ns, newcwd, newcwd), get_node(ns, c, c))

\* ShellEmulator.__init__: the engine is kept only when the load raised nothing
Construct ==
    /\ pc = "init"
    /\ \E r \in {load_csv(manifest)} :
           IF r.exc
           THEN /\ vfs' = "None"
                /\ nodes' = <<>>
                /\ cwd' = <<>>
                /\ out' = Printed("loaderror", r.msg, <<>>)
           ELSE /\ vfs' = "VFS"
                /\ nodes' = r.nodes
                /\ cwd' = Slash
                /\ out' = Printed("loaded", "", <<>>)
    /\ pc' = "start"
    /\ last' = NoLine
    /\ UNCHANGED <<manifest, running, need, ups>>

\* the state after one dispatched line: parse_input, run_command and the
\* observer (each is bound once, so that it is computed once)
Dispatch(src, line, next_pc, stop_pc) ==
    \E pi \in {parse_input(line)} :
    \E r \in {run_command(vfs, nodes, cwd, running, pi.cmd, pi.args)} :
    \E tr \in {IF vfs = "VFS" /\ pi.cmd = CdTok /\ r.out.kind = "silent"
               THEN Track(nodes, cwd, IF pi.args = <<>> THEN Slash ELSE pi.args[1],
                          r.cwd)
               ELSE [need |-> need, ups |-> ups]} :
        /\ cwd' = r.cwd
        /\ running' = r.running
        /\ out' = r.out
        /\ need' = tr.need
        /\ ups' = tr.ups
        /\ last' = [src |-> src, line |-> line, echoed |-> src = "script",
                    dispatched |-> TRUE, cmd |-> pi.cmd, args |-> pi.args]
        /\ pc' = IF r.running THEN next_pc ELSE stop_pc
        /\ UNCHANGED <<manifest, vfs, nodes>>

\* run_script: no startup script
ScriptMissing ==
    /\ pc = "start"
    /\ pc' = "main"
    /\ last' = NoLine
    /\ out' = NoOut
    /\ UNCHANGED <<manifest, vfs, nodes, cwd, running, need, ups>>

\* run_script: the script is opened
ScriptOpen ==
    /\ pc = "start"
    /\ pc' = "script"
    /\ last' = NoLine
    /\ out' = NoOut
    /\ UNCHANGED <<manifest, vfs, nodes, cwd, running, need, ups>>

\* run_script: one line of the script; returns once running is False
ScriptLine(line) ==
    /\ pc = "script"
    /\ LET l == Strip(line)
       IN  IF l = <<>> \/ StartsWith(l, <<"#">>)
           THEN /\ last' = [src |-> "script", line |-> line, echoed |-> FALSE,
                            dispatched |-> FALSE, cmd |-> <<>>, args |-> <<>>]
                /\ out' = NoOut
                /\ UNCHANGED <<manifest, vfs, nodes, cwd, running, pc, need, ups>>
           ELSE Dispatch("script", l, "script", "main")

\* run_script: the end of the script
ScriptEnd ==
    /\ pc = "script"
    /\ pc' = "main"
    /\ last' = NoLine
    /\ out' = NoOut
    /\ UNCHANGED <<manifest, vfs, nodes, cwd, running, need, ups>>

\* main: if emulator.running: emulator.repl()
Main ==
    /\ pc = "main"
    /\ pc' = IF running THEN "repl" ELSE "done"
    /\ last' = NoLine
    /\ out' = NoOut
    /\ UNCHANGED <<manifest, vfs, nodes, cwd, running, need, ups>>

\* repl that never looks at the running flag (a faulty variant)
ReplContinue_always == TRUE

\* repl: while self.running
ReplContinue == running

\* repl: one line read by input()
ReplLine(line) ==
    /\ pc = "repl"
    /\ ReplContinue
    /\ IF Strip(line) = <<>>
       THEN /\ last' = [src |-> "repl", line |-> line, echoed |-> FALSE,
                        dispatched |-> FALSE, cmd |-> <<>>, args |-> <<>>]
            /\ out' = NoOut
            /\ UNCHANGED <<manifest, vfs, nodes, cwd, running, pc, need, ups>>
       ELSE Dispatch("repl", line, "repl", "repl")

\* repl going on after EOFError instead of leaving the loop (a faulty variant)
ReplEOF_continue ==
    /\ pc = "repl"
    /\ ReplContinue
    /\ pc' = "repl"
    /\ last' = NoLine
    /\ out' = NoOut
    /\ UNCHANGED <<manifest, vfs, nodes, cwd, running, need, ups>>

\* repl: EOFError from input()
ReplEOF ==
    /\ pc = "repl"
    /\ ReplContinue
    /\ pc' = "done"
    /\ last' = NoLine
    /\ out' = NoOut
    /\ UNCHANGED <<manifest, vfs, nodes, cwd, running, need, ups>>

\* repl: KeyboardInterrupt while waiting in input()
ReplInterrupt ==
    /\ pc = "repl"
    /\ ReplContinue
    /\ pc' = "done"
    /\ last' = NoLine
    /\ out' = Printed("interrupt", "Interrupted. Exiting.", <<>>)
    /\ UNCHANGED <<manifest, vfs, nodes, cwd, running, need, ups>>

\* repl: the loop condition fails
ReplStop ==
    /\ pc = "repl"
    /\ ~ReplContinue
    /\ pc' = "done"
    /\ last' = NoLine
    /\ out' = NoOut
    /\ UNCHANGED <<manifest, vfs, nodes, cwd, running, need, ups>>

Next ==
    \/ Construct
    \/ ScriptMissing
    \/ ScriptOpen
    \/ \E line \in Lines : ScriptLine(line)
    \/ ScriptEnd
    \/ Main
    \/ \E line \in Lines : ReplLine(line)
    \/ ReplEOF
    \/ ReplInterrupt
    \/ ReplStop

Spec == Init /\ [][Next]_vars

\* Once the emulator is constructed, main is one sequential program: a step of
\* main, of run_script or of repl that can be taken is taken (the opening of
\* the script, Main, ReplStop).  The inputs are finite: the script file has a
\* last line (ScriptEnd), and input() raises EOFError unless the termination
\* verb came first (ReplEOF).
Fairness ==
    /\ WF_vars(ScriptMissing \/ ScriptOpen)
    /\ WF_vars(ScriptEnd)
    /\ WF_vars(Main)
    /\ WF_vars(ReplEOF)
    /\ WF_vars(ReplStop)

\* the lines of the sessions followed to their end: a cd that succeeds, one
\* that fails, queries, an unknown verb, skipped lines and the termination verb
LiveLines ==
    {CdTok \o Sp \o <<"a">>, CdTok \o Sp \o DotDot, CdTok \o Sp \o <<"c">>,
     CdTok \o Sp \o <<"b">>, CdTok \o Sp \o <<"/", "/", "b">>,
     LsTok, TreeTok \o Sp \o <<"c">>, ExitTok,
     <<>>, <<" ", " ">>, <<"#", " ", "l", "s">>, <<"f", "o", "o">>}

InitLive ==
    /\ manifest \in {ManifestScenario, ManifestTree, ManifestMissing}
    /\ vfs = "None"
    /\ nodes = <<>>
    /\ cwd = <<>>
    /\ running = TRUE
    /\ pc = "init"
    /\ last = NoLine
    /\ out = NoOut
    /\ need = -1
    /\ ups = 0

NextLive ==
    \/ Construct
    \/ ScriptMissing
    \/ ScriptOpen
    \/ \E line \in LiveLines : ScriptLine(line)
    \/ ScriptEnd
    \/ Main
    \/ \E line \in LiveLines : ReplLine(line)
    \/ ReplEOF
    \/ ReplInterrupt
    \/ ReplStop

SpecLive == InitLive /\ [][NextLive]_vars /\ Fairness

----------------------------------------------------------------------------
(* Direct calls of the engine's methods on the loaded instance.            *)

ApiCall(cmd, args) ==
    [src |-> "api", line |-> <<>>, echoed |-> FALSE, dispatched |-> FALSE,
     cmd |-> cmd, args |-> args]

Returned(r) == [kind |-> IF r.exc THEN "raise" ELSE "return", msg |-> r.msg, text |-> r.val]

ApiPaths == PathArgs \cup {<<>>, NoneArg}
ApiDepths == {<<>>} \cup {<<d>> : d \in 0..MaxTreeDepth}

\* vfs.ls(p)
EngineLs(p) ==
    /\ pc = "start"
    /\ vfs = "VFS"
    /\ out' = Returned(ls(nodes, cwd, p))
    /\ last' = ApiCall(LsTok, <<p>>)
    /\ pc' = "called"
    /\ UNCHANGED <<manifest, vfs, nodes, cwd, running, need, ups>>

\* vfs.cd(p)
EngineCd(p) ==
    /\ pc = "start"
    /\ vfs = "VFS"
    /\ \E r \in {cd(nodes, cwd, p)} :
       \E tr \in {IF r.exc THEN [need |-> need, ups |-> ups]
                  ELSE Track(nodes, cwd, p, r.val)} :
           /\ cwd' = r.val
           /\ out' = [kind |-> IF r.exc THEN "raise" ELSE "return",
                      msg |-> r.msg, text |-> <<>>]
           /\ need' = tr.need
           /\ ups' = tr.ups
    /\ last' = ApiCall(CdTok, <<p>>)
    /\ UNCHANGED <<manifest, vfs, nodes, running, pc>>

\* vfs.tree(p, max_depth)
EngineTree(p, max_depth) ==
    /\ pc = "start"
    /\ vfs = "VFS"
    /\ out' = Returned(tree(nodes, cwd, p, max_depth))
    /\ last' = ApiCall(TreeTok, <<p, max_depth>>)
    /\ pc' = "called"
    /\ UNCHANGED <<manifest, vfs, nodes, cwd, running, need, ups>>

InitApi ==
    /\ manifest \in {ManifestTree, ManifestScenario, ManifestHeader}
    /\ vfs = "None"
    /\ nodes = <<>>
    /\ cwd = <<>>
    /\ running = TRUE
    /\ pc = "init"
    /\ last = NoLine
    /\ out = NoOut
    /\ need = -1
    /\ ups = 0

NextApi ==
    \/ Construct
    \/ \E p \in ApiPaths \ {NoneArg} : EngineCd(p)
    \/ \E p \in ApiPaths : EngineLs(p)
    \/ \E p \in ApiPaths, d \in ApiDepths : EngineTree(p, d)

SpecApi == InitApi /\ [][NextApi]_vars

InitLoad ==
    /\ manifest \in LoadManifests
    /\ vfs = "None"
    /\ nodes = <<>>
    /\ cwd = <<>>
    /\ running = TRUE
    /\ pc = "init"
    /\ last = NoLine
    /\ out = NoOut
    /\ need = -1
    /\ ups = 0

NextLoad ==
    \/ Construct
    \/ \E p \in {NoneArg} : EngineTree(p, <<>>)
    \/ \E p \in {NoneArg} : EngineLs(p)

SpecLoad == InitLoad /\ [][NextLoad]_vars

\* the names under which direct calls of _normalize_posix and read_file are recorded
NormTok == <<"n", "o", "r", "m", "a", "l", "i", "z", "e">>
ReadTok == <<"r", "e", "a", "d">>

\* vfs._normalize_posix(p)
EngineNormalize(p) ==
    /\ pc = "start"
    /\ vfs = "VFS"
    /\ out' = [kind |-> "return", msg |-> "", text |-> normalize_posix(cwd, p)]
    /\ last' = ApiCall(NormTok, <<p>>)
    /\ pc' = "called"
    /\ UNCHANGED <<manifest, vfs, nodes, cwd, running, need, ups>>

\* vfs.read_file(p)
EngineReadFile(p) ==
    /\ pc = "start"
    /\ vfs = "VFS"
    /\ out' = Returned(read_file(nodes, cwd, p))
    /\ last' = ApiCall(ReadTok, <<p>>)
    /\ pc' = "called"
    /\ UNCHANGED <<manifest, vfs, nodes, cwd, running, need, ups>>

\* the path resolver called from every directory cd can make the cwd
NextNorm ==
    \/ Construct
    \/ \E p \in ApiPaths \ {NoneArg} : EngineCd(p)
    \/ \E p \in ApiPaths \ {NoneArg} : EngineNormalize(p)

SpecNorm == InitApi /\ [][NextNorm]_vars

\* the session, with direct calls of the engine on the loaded instance
NextAll ==
    \/ Next
    \/ \E p \in ApiPaths \ {NoneArg} : EngineCd(p)
    \/ \E p \in ApiPaths : EngineLs(p)
    \/ \E p \in ApiPaths, d \in ApiDepths : EngineTree(p, d)
    \/ \E p \in ApiPaths \ {NoneArg} : EngineReadFile(p)

SpecAll == Init /\ [][NextAll]_vars

----------------------------------------------------------------------------
(* What the properties are stated with: the tree as a set of nodes, and    *)
(* path resolution stated segment by segment.                              *)

RECURSIVE ReachFrom(_, _)
ReachFrom(ns, n) ==
    {n} \cup UNION {ReachFrom(ns, ns[n].children[k]) : k \in DOMAIN ns[n].children}

\* the nodes a traversal from the root visits
Reach(ns) == ReachFrom(ns, RootId)

\* the node reached from the root by the names in segs, None when there is none
RECURSIVE NodeAt(_, _, _)
NodeAt(ns, n, segs) ==
    IF segs = <<>> THEN n
    ELSE IF ~ns[n].isDir \/ segs[1] \notin DOMAIN ns[n].children THEN None
    ELSE NodeAt(ns, ns[n].children[segs[1]], Tail(segs))

\* the segments left when "" and "." are dropped and ".." takes one back
RECURSIVE Collapse(_, _)
Collapse(base, comps) ==
    IF comps = <<>> THEN base
    ELSE IF comps[1] = <<>> \/ comps[1] = Dot THEN Collapse(base, Tail(comps))
    ELSE IF comps[1] = DotDot
    THEN Collapse(IF base = <<>> THEN base ELSE SubSeq(base, 1, Len(base) - 1),
                  Tail(comps))
    ELSE Collapse(Append(base, comps[1]), Tail(comps))

\* the segments a path names, taken relative to the directory c unless it
\* starts with a separator
TargetSegs(c, p) ==
    Collapse(IF p # <<>> /\ p[1] \in {"/", "\\"} THEN <<>> ELSE NonEmpty(Split(c)),
             Split(ReplaceBackslash(p)))

\* the node a path names from the directory c
Resolve(ns, c, p) == NodeAt(ns, RootId, TargetSegs(c, p))

\* the target of a call whose path argument may be None
OrCwd(c, p) == IF p = NoneArg THEN c ELSE p

IsDirectory(ns, n) == n # None /\ ns[n].isDir
IsFile(ns, n) == n # None /\ ~ns[n].isDir

\* a step that dispatched the line now in last'
Dispatched(cmd) == last'.dispatched /\ last'.cmd = cmd

RmTok == <<"r", "m">>

----------------------------------------------------------------------------
(* C1: in every state after a successful load, whatever commands were      *)
(* dispatched, cwd resolves through the tree to an existing Directory.     *)
C1_CwdIsDirectory ==
    vfs = "VFS" =>
        /\ Resolve(nodes, Slash, cwd) \in Reach(nodes)
        /\ nodes[Resolve(nodes, Slash, cwd)].isDir
        /\ get_node(nodes, cwd, cwd) = Resolve(nodes, Slash, cwd)

\* a cd has just failed in a directory two levels below the root
C1_Witness ==
    /\ vfs = "VFS"
    /\ last.dispatched /\ last.cmd = CdTok /\ out.kind = "error"
    /\ Len(TargetSegs(Slash, cwd)) = 2

(* C2: after a successful cd into a child directory, as many successful    *)
(* "cd .." as the directory is deep leave cwd equal to the string "/".     *)
C2_UpReturnsToRoot ==
    (vfs = "VFS" /\ need >= 1 /\ ups >= need) => cwd = Slash

(* C3: after a load without error, every path a row declares (here: rows   *)
(* whose path is spelled canonically, with type dir or file) is the path   *)
(* of exactly one node of the traversal, a Directory for dir, a File for   *)
(* file.                                                                   *)
DeclaredRows(m) ==
    {i \in 1..Len(DataRows(m.rows)) : ~BlankRow(DataRows(m.rows)[i])}

FieldsAt(m, i) ==
    Fields(HeaderPresent(m.rows),
           IF HeaderPresent(m.rows) THEN HeaderOf(m.rows) ELSE <<>>,
           DataRows(m.rows)[i])

Canonical(p) == Slash \o Join(Slash, TargetSegs(Slash, p))

\* row i declares a canonically spelled path with type dir or file
PlainRow(m, i) ==
    /\ FieldsAt(m, i).path # <<>>
    /\ RowPath(FieldsAt(m, i).path) = Canonical(FieldsAt(m, i).path)
    /\ FieldsAt(m, i).typ \in {DirTok, FileTok}

C3_DeclaredPathsEnumerated ==
    vfs = "VFS" =>
        \A i \in DeclaredRows(manifest) :
            PlainRow(manifest, i) =>
                /\ Cardinality({n \in Reach(nodes) :
                        path(nodes, n) = RowPath(FieldsAt(manifest, i).path)}) = 1
                /\ \A n \in Reach(nodes) :
                        path(nodes, n) = RowPath(FieldsAt(manifest, i).path)
                            => nodes[n].isDir = (FieldsAt(manifest, i).typ = DirTok)

(* C4: when a row conflicts in path or type with an entry an earlier row   *)
(* made (an ancestor that is a File, a file where a directory is, a        *)
(* directory where a file is), the load aborts: no engine, no tree.        *)
RowSegs(m, i) == TargetSegs(Slash, FieldsAt(m, i).path)

IsPrefix(a, b) == Len(a) <= Len(b) /\ SubSeq(b, 1, Len(a)) = a

\* rows i < j, both canonically spelled: j cannot be added beside i
Conflict(m, i, j) ==
    LET fi == FieldsAt(m, i).typ = FileTok
        fj == FieldsAt(m, j).typ = FileTok
    IN  \/ fi /\ IsPrefix(RowSegs(m, i), RowSegs(m, j)) /\ RowSegs(m, i) # RowSegs(m, j)
        \/ fi # fj /\ RowSegs(m, i) = RowSegs(m, j)
        \/ fj /\ IsPrefix(RowSegs(m, j), RowSegs(m, i)) /\ RowSegs(m, i) # RowSegs(m, j)

HasConflict(m) ==
    \E i, j \in DeclaredRows(m) :
        i < j /\ PlainRow(m, i) /\ PlainRow(m, j) /\ Conflict(m, i, j)

C4_ConflictAborts ==
    (pc # "init" /\ manifest.exists /\ HasConflict(manifest))
        => (vfs = "None" /\ nodes = <<>>)

(* C5: a dispatched cd moves cwd to the target exactly when the target     *)
(* exists and is a Directory (no argument: the root); on a missing target  *)
(* it reports "No such directory", on a File "Not a directory", and then   *)
(* cwd is as before; the tree is never changed.                            *)
CdTarget(args) == IF args = <<>> THEN Slash ELSE args[1]

C5_CdContract ==
    [][(vfs = "VFS" /\ Dispatched(CdTok)) =>
        /\ nodes' = nodes
        /\ IsDirectory(nodes, Resolve(nodes, cwd, CdTarget(last'.args))) =>
              /\ out'.kind = "silent"
              /\ Resolve(nodes, Slash, cwd') = Resolve(nodes, cwd, CdTarget(last'.args))
        /\ Resolve(nodes, cwd, CdTarget(last'.args)) = None =>
              /\ out'.kind = "error" /\ out'.msg = "No such directory"
              /\ cwd' = cwd
        /\ IsFile(nodes, Resolve(nodes, cwd, CdTarget(last'.args))) =>
              /\ out'.kind = "error" /\ out'.msg = "Not a directory"
              /\ cwd' = cwd]_vars

\* a cd to a File has just been refused below the root
C5_Witness ==
    /\ vfs = "VFS"
    /\ last.dispatched /\ last.cmd = CdTok
    /\ out.kind = "error" /\ out.msg = "Not a directory"
    /\ cwd # Slash

(* C6: ls(path), path defaulting to cwd and relative paths taken from cwd, *)
(* returns the child names in strictly ascending order for a Directory,    *)
(* the one name of a File, and raises "No such file or directory" when the *)
(* path does not resolve.                                                  *)
Ascending(q) == \A i, j \in 1..Len(q) : i < j => StrLess(q[i], q[j])

C6_LsContract ==
    (pc = "called" /\ last.cmd = LsTok) =>
        LET n == Resolve(nodes, cwd, OrCwd(cwd, last.args[1]))
        IN  /\ n = None => (out.kind = "raise" /\ out.msg = "No such file or directory")
            /\ IsDirectory(nodes, n) =>
                  /\ out.kind = "return"
                  /\ Ascending(out.text)
                  /\ {out.text[i] : i \in 1..Len(out.text)} = DOMAIN nodes[n].children
            /\ IsFile(nodes, n) =>
                  (out.kind = "return" /\ out.text = <<nodes[n].name>>)

\* ls of a relative path, from below the root, returned two names or more
C6_Witness ==
    /\ pc = "called" /\ last.cmd = LsTok
    /\ cwd # Slash /\ last.args[1] \notin {NoneArg, <<>>} /\ last.args[1][1] # "/"
    /\ out.kind = "return" /\ Len(out.text) >= 2

(* C7: a dispatched line whose verb is not the termination verb leaves the *)
(* session running and in the same loop; an unrecognized verb and a failed *)
(* engine call are reported as text.                                       *)
KnownVerbs == {ExitTok, LsTok, CdTok, InfoTok, TreeTok, UnameTok, WhoamiTok}

\* the engine call the line asks for fails: the path names no node, or cd
\* names a File
EngineFails(cmd, args) ==
    /\ vfs = "VFS"
    /\ \/ cmd \in {LsTok, TreeTok} /\ args # <<>> /\ Resolve(nodes, cwd, args[1]) = None
       \/ cmd = CdTok /\ ~IsDirectory(nodes, Resolve(nodes, cwd, CdTarget(args)))

C7_SessionContinues ==
    [][(last'.dispatched /\ last'.cmd # ExitTok) =>
        /\ running /\ running'
        /\ pc' = pc /\ pc' = last'.src
        /\ last'.cmd \notin KnownVerbs =>
              (out'.kind = "unknown" /\ out'.text = last'.cmd)
        /\ EngineFails(last'.cmd, last'.args) =>
              (out'.kind = "error" /\ out'.msg # "")]_vars

\* an engine call has just failed in the interactive loop, which goes on
C7_Witness ==
    /\ last.dispatched /\ last.src = "repl" /\ last.cmd = LsTok
    /\ out.kind = "error"
    /\ running /\ pc = "repl"

(* C8: the termination verb clears the running flag, and once it is clear  *)
(* no line is read, echoed or dispatched and neither loop is (re-)entered. *)
C8_NothingAfterExit ==
    [][/\ Dispatched(ExitTok) => ~running'
       /\ ~running => /\ ~running'
                      /\ last'.src = "none" /\ ~last'.echoed /\ ~last'.dispatched
                      /\ pc' \notin {"script", "repl"}]_vars

\* the termination verb was dispatched in the interactive loop
C8_Witness ==
    /\ ~running /\ pc = "repl"
    /\ last.dispatched /\ last.cmd = ExitTok /\ last.src = "repl"

(* C9: tree(path, maxDepth) lists the start node and the nodes below it    *)
(* down to maxDepth, in pre-order with the children of a directory in      *)
(* ascending order: the line of a node d levels below the start is 2*d     *)
(* blanks and its name ("/" for the root); it raises "No such path" when   *)
(* the start does not resolve.  For the scenario manifest tree("/") is     *)
(* "/", "  a", "    b.txt".                                                *)
RECURSIVE LinesFrom(_, _, _)
LinesFrom(s, cur, acc) ==
    IF s = <<>> THEN Append(acc, cur)
    ELSE IF s[1] = "\n" THEN LinesFrom(Tail(s), <<>>, Append(acc, cur))
    ELSE LinesFrom(Tail(s), Append(cur, s[1]), acc)

\* the names from the start node n down to x
RelPath(ns, n, x) == SubSeq(PathParts(ns, x), Len(PathParts(ns, n)) + 1,
                            Len(PathParts(ns, x)))

\* pre-order with sorted children: a node comes before the nodes below it,
\* and siblings' subtrees come in the order of the siblings' names
RECURSIVE PathLess(_, _)
PathLess(a, b) ==
    IF b = <<>> THEN FALSE
    ELSE IF a = <<>> THEN TRUE
    ELSE IF a[1] # b[1] THEN StrLess(a[1], b[1])
    ELSE PathLess(Tail(a), Tail(b))

Listed(ns, n, max_depth) ==
    {x \in ReachFrom(ns, n) :
        max_depth = <<>> \/ Len(RelPath(ns, n, x)) <= max_depth[1]}

Rank(ns, n, max_depth, x) ==
    1 + Cardinality({y \in Listed(ns, n, max_depth) :
                        PathLess(RelPath(ns, n, y), RelPath(ns, n, x))})

Label(ns, x) == IF x = RootId THEN Slash ELSE ns[x].name

TreeLines(ns, n, max_depth, lines) ==
    /\ Len(lines) = Cardinality(Listed(ns, n, max_depth))
    /\ \A x \in Listed(ns, n, max_depth) :
          lines[Rank(ns, n, max_depth, x)] =
              [i \in 1..(2 * Len(RelPath(ns, n, x))) |-> " "] \o Label(ns, x)

C9_TreeContract ==
    (pc = "called" /\ last.cmd = TreeTok) =>
        LET n == Resolve(nodes, cwd, OrCwd(cwd, last.args[1]))
        IN  /\ n = None => (out.kind = "raise" /\ out.msg = "No such path")
            /\ n # None =>
                  /\ out.kind = "return"
                  /\ TreeLines(nodes, n, last.args[2], LinesFrom(out.text, <<>>, <<>>))
            /\ (manifest = ManifestScenario /\ last.args = <<Slash, <<>>>>) =>
                  LinesFrom(out.text, <<>>, <<>>)
                      = <<Slash, <<" ", " ", "a">>,
                          <<" ", " ", " ", " ", "b", ".", "t", "x", "t">>>>

\* tree() of the cwd, below the root, cut at depth 1 with deeper nodes below
C9_Witness ==
    /\ pc = "called" /\ last.cmd = TreeTok /\ out.kind = "return"
    /\ last.args = <<NoneArg, <<1>>>>
    /\ cwd = Slash
    /\ Listed(nodes, RootId, <<1>>) # Reach(nodes)
    /\ Len(LinesFrom(out.text, <<>>, <<>>)) >= 3

(* C10: a dispatched "rm PATH" (no -r) whose path names a directory with   *)
(* children is refused with an error of the rm command, the tree staying   *)
(* as it was.                                                              *)
C10_RmNotEmpty ==
    [][(/\ vfs = "VFS"
        /\ Dispatched(RmTok)
        /\ Len(last'.args) = 1
        /\ IsDirectory(nodes, Resolve(nodes, cwd, last'.args[1]))
        /\ DOMAIN nodes[Resolve(nodes, cwd, last'.args[1])].children # {})
        => (out'.kind = "error" /\ nodes' = nodes /\ cwd' = cwd)]_vars

ChmodTok == <<"c", "h", "m", "o", "d">>
Mode755 == <<"7", "5", "5">>

(* C11: a dispatched "chmod 755 PATH" whose path names an existing node    *)
(* succeeds: it is not reported as an error or as an unknown command (the  *)
(* mode it sets is then the one a mode query shows as rwxr-xr-x).          *)
C11_ChmodSucceeds ==
    [][(/\ vfs = "VFS"
        /\ Dispatched(ChmodTok)
        /\ Len(last'.args) = 2
        /\ last'.args[1] = Mode755
        /\ Resolve(nodes, cwd, last'.args[2]) # None)
        => out'.kind \notin {"error", "unknown"}]_vars

(* C12: _normalize_posix(p) returns cwd for the empty p; otherwise the     *)
(* result starts with "/", has no segment "." or "..", names the segments  *)
(* of p (a backslash separating like "/") taken from the root when p       *)
(* starts with a separator and from cwd otherwise, and is "/" when no      *)
(* segment is left.                                                        *)
C12_NormalizeContract ==
    (pc = "called" /\ last.cmd = NormTok) =>
        /\ last.args[1] = <<>> => out.text = cwd
        /\ last.args[1] # <<>> =>
              /\ StartsWith(out.text, Slash)
              /\ \A i \in 1..Len(Split(out.text)) :
                    Split(out.text)[i] \notin {Dot, DotDot}
              /\ NonEmpty(Split(out.text)) = TargetSegs(cwd, last.args[1])
              /\ TargetSegs(cwd, last.args[1]) = <<>> => out.text = Slash

(* C13: after construction no step changes the tree, and a step changes    *)
(* cwd only when it is a cd that succeeded: ls, tree, read_file, the info  *)
(* query, unknown verbs and failed commands leave cwd as it was.           *)
C13_Frame ==
    [][pc # "init" =>
          /\ nodes' = nodes
          /\ cwd' # cwd =>
                /\ last'.cmd = CdTok
                /\ last'.dispatched \/ last'.src = "api"
                /\ out'.kind \in {"silent", "return"}]_vars

\* read_file has just returned a file's content, called from below the root
C13_Witness ==
    /\ pc = "called" /\ last.cmd = ReadTok
    /\ out.kind = "return" /\ out.text # <<>>
    /\ cwd # Slash

(* C14: a dispatched ls, cd or tree with more than one argument, or exit   *)
(* with an argument, is answered by a usage error: no engine call is made, *)
(* cwd and the tree stay as they were and the session goes on.             *)
C14_UsageError ==
    [][(/\ vfs = "VFS" /\ last'.dispatched
        /\ \/ last'.cmd \in {LsTok, CdTok, TreeTok} /\ Len(last'.args) > 1
           \/ last'.cmd = ExitTok /\ last'.args # <<>>)
        => /\ out'.kind = "usage"
           /\ cwd' = cwd /\ nodes' = nodes
           /\ running' = running]_vars

(* C15: after a load, the nodes a traversal from the root visits form a    *)
(* tree: the root has no parent; every other visited node's parent is a    *)
(* visited Directory that holds the node under exactly one key, the node's *)
(* name; no other directory holds it; and the parent links lead to the     *)
(* root.                                                                   *)
Holds(ns, d, n) == \E k \in DOMAIN ns[d].children : ns[d].children[k] = n

C15_TreeShape ==
    vfs = "VFS" =>
        /\ nodes[RootId].parent = None /\ nodes[RootId].isDir
        /\ \A n \in Reach(nodes) \ {RootId} :
              /\ nodes[n].parent \in Reach(nodes)
              /\ nodes[nodes[n].parent].isDir
              /\ {k \in DOMAIN nodes[nodes[n].parent].children :
                     nodes[nodes[n].parent].children[k] = n} = {nodes[n].name}
              /\ \A d \in Reach(nodes) : Holds(nodes, d, n) => d = nodes[n].parent
              /\ Len(PathParts(nodes, n)) \in 1..(Cardinality(Reach(nodes)) - 1)
        /\ \A d \in Reach(nodes) : ~Holds(nodes, d, RootId)

\* a later row replaced a directory: nodes made by the load are no longer
\* visited, and the tree has two levels left
C15_Witness ==
    /\ vfs = "VFS" /\ pc = "called"
    /\ Cardinality(Reach(nodes)) < Len(nodes)
    /\ \E n \in Reach(nodes) : Len(PathParts(nodes, n)) = 2

(* C16: with a finite script and an interactive input that ends or holds   *)
(* the termination verb, the session of a constructed emulator eventually  *)
(* stops; on the way, an interactive line that is empty is skipped without *)
(* dispatch, and the interactive loop is left without an error being       *)
(* reported.                                                               *)
C16_SessionStops ==
    /\ (pc = "start") ~> (pc = "done")
    /\ [][((last'.src = "repl" /\ Strip(last'.line) = <<>>) =>
              (/\ ~last'.dispatched /\ out' = NoOut
               /\ pc' = "repl" /\ running' = running /\ cwd' = cwd))
          /\ ((pc = "repl" /\ pc' = "done") =>
              (/\ out'.kind \in {"none", "interrupt"}
               /\ cwd' = cwd /\ running' = running))]_vars

\* the session has stopped at end-of-input, still running, after lines that
\* moved two levels below the root
C16_Witness ==
    /\ pc = "done" /\ running
    /\ last = NoLine /\ out = NoOut
    /\ vfs = "VFS" /\ Len(TargetSegs(Slash, cwd)) = 2

(* C17: a row whose type is neither dir nor file is loaded as a File: the  *)
(* load of a manifest and the load of the same manifest with every such    *)
(* type written as file end alike, in the same tree or in the same error   *)
(* at the same row.                                                        *)

\* the column the type is read from: the last "type" column under a header,
\* the second cell without one
TypeColumn(rows) ==
    IF HeaderPresent(rows)
    THEN CHOOSE i \in 1..Len(HeaderOf(rows)) :
             /\ HeaderOf(rows)[i] = TypeTok
             /\ \A j \in 1..Len(HeaderOf(rows)) : HeaderOf(rows)[j] = TypeTok => j <= i
    ELSE 2

\* the row with its type written as file unless it is dir or file already
FileTypedRow(row, ti) ==
    IF BlankRow(row) THEN row
    ELSE IF Len(row) < ti
    THEN [i \in 1..ti |-> IF i <= Len(row) THEN row[i]
                          ELSE IF i = ti THEN FileTok ELSE <<>>]
    ELSE IF Lower(Strip(row[ti])) \in {DirTok, FileTok} THEN row
    ELSE [row EXCEPT ![ti] = FileTok]

FileTyped(m) ==
    [exists |-> m.exists,
     rows |-> [i \in 1..Len(m.rows) |->
                  IF HeaderPresent(m.rows) /\ i = 1 THEN m.rows[i]
                  ELSE FileTypedRow(m.rows[i], TypeColumn(m.rows))]]

C17_UnknownTypeIsFile ==
    (pc # "init" /\ manifest.exists) =>
        /\ load_csv(manifest) = load_csv(FileTyped(manifest))
        /\ (vfs = "VFS") = ~load_csv(FileTyped(manifest)).exc
        /\ vfs = "VFS" => nodes = load_csv(FileTyped(manifest)).nodes

\* a manifest with a type that is neither dir nor file was loaded into a tree
\* of two levels
C17_Witness ==
    /\ pc = "called" /\ vfs = "VFS"
    /\ FileTyped(manifest) # manifest
    /\ \E n \in Reach(nodes) : ~nodes[n].isDir /\ Len(PathParts(nodes, n)) = 2

(* C18: cwd is the canonical spelling of the directory it resolves to: it  *)
(* equals path() of that node, with one leading "/", no empty, "." or ".." *)
(* segment and no trailing "/" unless it is the root.                      *)
C18_CwdCanonical ==
    vfs = "VFS" =>
        /\ get_node(nodes, cwd, cwd) # None
        /\ cwd = path(nodes, get_node(nodes, cwd, cwd))
        /\ cwd = Slash \o Join(Slash, TargetSegs(Slash, cwd))

(* C19: after a load, path() and lookup are inverse on the nodes a         *)
(* traversal from the root visits: _get_node(n.path()) is n; the root's    *)
(* path is "/"; every other visited node has a name that is not empty, not *)
(* "." or ".." and holds no separator.                                     *)
C19_PathRoundTrip ==
    vfs = "VFS" =>
        /\ path(nodes, RootId) = Slash
        /\ \A n \in Reach(nodes) :
              /\ get_node(nodes, Slash, path(nodes, n)) = n
              /\ n # RootId =>
                    /\ nodes[n].name \notin {<<>>, Dot, DotDot}
                    /\ \A i \in 1..Len(nodes[n].name) :
                          nodes[n].name[i] \notin {"/", "\\"}

(* C20: the last row of a manifest, loaded onto the tree the rows before   *)
(* it built.  A row that is not a dir row and names an entry that exists   *)
(* (its parent directory exists and holds its last segment) does not fail: *)
(* a new File takes the entry's place in the parent's children, and the    *)
(* entry and the nodes below it are no longer visited from the root.  A    *)
(* dir row naming a Directory changes nothing; a dir row naming a File     *)
(* aborts the load.                                                        *)

\* the tree built by the rows before the last one
Before(m) == load_csv([m EXCEPT !.rows = SubSeq(m.rows, 1, Len(m.rows) - 1)])

\* the fields of the last row
LastFields(m) == FieldsAt(m, Len(DataRows(m.rows)))

\* the last row declares a path
LastDeclares(m) ==
    /\ m.exists
    /\ DataRows(m.rows) # <<>>
    /\ ~BlankRow(m.rows[Len(m.rows)])
    /\ LastFields(m).path # <<>>

\* the File made for the fields f
FileOf(f, name, d) ==
    [name |-> name, parent |-> d, isDir |-> FALSE, children |-> EmptyMap,
     content |-> f.content]

\* a File named name took the place of the entry of that name in directory d
Replaced(ns, d, name, f, loaded, after) ==
    /\ loaded
    /\ Len(after) = Len(ns) + 1
    /\ after[Len(ns) + 1] = FileOf(f, name, d)
    /\ after[d].children = [k \in DOMAIN ns[d].children |->
                                IF k = name THEN Len(ns) + 1 ELSE ns[d].children[k]]
    /\ \A i \in 1..Len(ns) : i # d => after[i] = ns[i]
    /\ Reach(after) = (Reach(ns) \ ReachFrom(ns, ns[d].children[name]))
                          \cup {Len(ns) + 1}

\* a row that is not a dir row: comps are the pieces of its path, d the node
\* its parent path names
FileRowWins(ns, comps, d, f, loaded, after) ==
    (d # None /\ ns[d].isDir /\ comps[Len(comps)] \in DOMAIN ns[d].children)
        => Replaced(ns, d, comps[Len(comps)], f, loaded, after)

\* a dir row whose path names the node e
DirRowKeeps(ns, e, loaded, after) ==
    /\ IsDirectory(ns, e) => (loaded /\ after = ns)
    /\ IsFile(ns, e) => ~loaded

LastRowOnto(ns, f, loaded, after) ==
    IF f.typ = DirTok
    THEN DirRowKeeps(ns, NodeAt(ns, RootId, TargetSegs(Slash, RowPath(f.path))),
                     loaded, after)
    ELSE FileRowWins(ns, Split(RowPath(f.path)),
                     NodeAt(ns, RootId,
                            Collapse(<<>>, SubSeq(Split(RowPath(f.path)), 1,
                                                  Len(Split(RowPath(f.path))) - 1))),
                     f, loaded, after)

====
